---- MODULE Spec2Model ----
(***************************************************************************)
(* The generated-query pipeline of src/api/app.py: extraction of a         *)
(* statement from a completion, policy validation, limit enforcement and   *)
(* guarded execution, as used by the /ask-text and /ask-visual handlers;   *)
(* the shared database engine; the chart response of /ask-visual; and the  *)
(* paged extraction of src/lambdas/lambda_masiva.py.                       *)
(* Text is a sequence of one-character strings, so the regular             *)
(* expressions of the source are evaluated character by character.         *)
(***************************************************************************)
EXTENDS Integers, Sequences, FiniteSets, TLC

VARIABLES
    pc,        \* position of the request handler (or of the function call)
    mode,      \* "text" (ask_text) or "visual" (ask_visual)
    env,       \* <<MAX_ROWS_TEXT, MAX_ROWS_VISUAL>> read from the environment
    raw,       \* the completion returned by hf_generate_text
    sql,       \* the handler's current SQL text
    calls,     \* the stages the handler has called so far, in order
    executed,  \* the texts handed to conn.execute by run_sql
    status,    \* HTTP status of the response (0 while the request runs)
    detail,    \* the message of the exception that ended the request
    cursor,    \* the rows the database cursor can deliver
    fetched,   \* how many rows run_sql has read from the cursor
    rows,      \* the rows run_sql returned
    arg,       \* argument of a direct call of sanitize_sql / ensure_limit
    lim,       \* ceiling passed to a direct call of ensure_limit
    res,       \* result of the direct call
    res2,      \* result of a second call made for comparison
    _engine,   \* the module global _engine: 0 for None, or an engine object
    created,   \* how many times create_engine has been called
    assigned,  \* how many times the global _engine has been assigned
    thr,       \* per request thread: position in get_engine, local, result
    db_env,    \* DB_HOST, DB_NAME, DB_USER and DB_PASSWORD are all set
    series,    \* the chart series ask_visual plots: label and value per bar
    header,    \* the X-SQL header of the chart response
    image,     \* what the chart response carries: "" or "png"
    page_state,\* content of the S3 object state/rawg_page.txt, 0 when missing
    objects,   \* the data objects lambda_masiva has put to S3, in order
    late,      \* a run of lambda_masiva raised after putting its data object
    runs       \* how each run of lambda_masiva so far has ended, in order

vars == <<pc, mode, env, raw, sql, calls, executed, status, detail,
          cursor, fetched, rows, arg, lim, res, res2,
          _engine, created, assigned, thr, db_env, series, header, image,
          page_state, objects, late, runs>>

requestVars == <<mode, env, raw, sql, calls, executed, status, detail,
                 cursor, fetched, rows>>

callVars == <<arg, lim, res, res2>>

engineVars == <<_engine, created, assigned, thr, db_env>>

visualVars == <<series, header, image>>

ingestVars == <<page_state, objects, late, runs>>

\* no request has asked for the engine yet
EngineIdle ==
    _engine = 0 /\ created = 0 /\ assigned = 0 /\ thr = <<>> /\ db_env = TRUE

\* no chart has been built
VisualIdle == series = <<>> /\ header = <<>> /\ image = ""

\* lambda_masiva has not run: no state object, no data object
IngestIdle == page_state = 0 /\ objects = <<>> /\ late = FALSE /\ runs = <<>>

-----------------------------------------------------------------------------
(* Characters and the character classes of Python's re module.             *)

LowerAZ == <<"a","b","c","d","e","f","g","h","i","j","k","l","m","n","o","p","q","r","s","t","u","v","w","x","y","z">>

UpperAZ == <<"A","B","C","D","E","F","G","H","I","J","K","L","M","N","O","P","Q","R","S","T","U","V","W","X","Y","Z">>

DigitChars == <<"0","1","2","3","4","5","6","7","8","9">>

Range(f) == {f[i] : i \in DOMAIN f}

\* \s
Whitespace == {" ", "\n", "\t", "\r"}

\* \d
DigitSet == Range(DigitChars)

\* \w
WordChars == Range(LowerAZ) \cup Range(UpperAZ) \cup DigitSet \cup {"_"}

UpperOf == [c \in Range(LowerAZ) |-> UpperAZ[CHOOSE i \in 1..26 : LowerAZ[i] = c]]

\* re.IGNORECASE compares characters up to letter case
upper(c) == IF c \in DOMAIN UpperOf THEN UpperOf[c] ELSE c

\* the character at position i, or "" outside the text
ChAt(s, i) == IF i >= 1 /\ i <= Len(s) THEN s[i] ELSE ""

\* \b between position i-1 and position i
WordBoundary(s, i) == (ChAt(s, i - 1) \in WordChars) # (ChAt(s, i) \in WordChars)

\* a literal of the pattern matches at position i (flags=re.I)
LitAtI(s, i, w) ==
    /\ i >= 1
    /\ i + Len(w) - 1 <= Len(s)
    /\ \A k \in 1..Len(w) : upper(s[i + k - 1]) = upper(w[k])

\* Python's `w in s` (case-sensitive) at position i
LitAt(s, i, w) ==
    /\ i >= 1
    /\ i + Len(w) - 1 <= Len(s)
    /\ \A k \in 1..Len(w) : s[i + k - 1] = w[k]

Contains(s, w) == \E i \in 1..Len(s) : LitAt(s, i, w)

\* the end (exclusive) of the run of characters of class cls starting at i
RECURSIVE RunEnd(_, _, _)
RunEnd(s, i, cls) ==
    IF i <= Len(s) /\ s[i] \in cls THEN RunEnd(s, i + 1, cls) ELSE i

\* the start (exclusive) of the run of characters of class cls ending at i
RECURSIVE RunStart(_, _, _)
RunStart(s, i, cls) ==
    IF i >= 1 /\ s[i] \in cls THEN RunStart(s, i - 1, cls) ELSE i

\* str.strip()
strip(s) == SubSeq(s, RunEnd(s, 1, Whitespace), RunStart(s, Len(s), Whitespace))

\* str.rstrip(";"): every trailing ";" is removed
rstrip_semicolon(s) == SubSeq(s, 1, RunStart(s, Len(s), {";"}))

-----------------------------------------------------------------------------
(* The patterns of the validator.                                          *)

kwSELECT == <<"S","E","L","E","C","T">>

kwWITH == <<"W","I","T","H">>

kwFROM == <<"F","R","O","M">>

kwJOIN == <<"J","O","I","N">>

kwLIMIT == <<"L","I","M","I","T">>

AllowedTable == <<"p","u","b","l","i","c",".","r","a","w","g","_","g","a","m","e","s">>

ForbiddenWords == {
    <<"I","N","S","E","R","T">>,
    <<"U","P","D","A","T","E">>,
    <<"D","E","L","E","T","E">>,
    <<"D","R","O","P">>,
    <<"A","L","T","E","R">>,
    <<"T","R","U","N","C","A","T","E">>,
    <<"C","R","E","A","T","E">>,
    <<"G","R","A","N","T">>,
    <<"R","E","V","O","K","E">>,
    <<"C","O","P","Y">>}

CatalogWords == {
    <<"p","g","_","c","a","t","a","l","o","g">>,
    <<"i","n","f","o","r","m","a","t","i","o","n","_","s","c","h","e","m","a">>}

\* re.search(r"\b(w1|w2|...)\b", s, re.I) finds a match
WordSearch(s, words) ==
    \E i \in 1..Len(s) :
        /\ WordBoundary(s, i)
        /\ \E w \in words : LitAtI(s, i, w) /\ WordBoundary(s, i + Len(w))

\* variant of FORBIDDEN: the pattern without its \b anchors
FORBIDDEN_unanchored(s) ==
    \E i \in 1..Len(s) : \E w \in ForbiddenWords : LitAtI(s, i, w)

FORBIDDEN(s) == WordSearch(s, ForbiddenWords)

CATALOG_FORBIDDEN(s) == WordSearch(s, CatalogWords)

\* re.match(r"^(SELECT|WITH)\b", s, re.I)
StartsAsRead(s) ==
    \E w \in {kwSELECT, kwWITH} : LitAtI(s, 1, w) /\ WordBoundary(s, 1 + Len(w))

\* re.search(r"\b(FROM|JOIN)\s+public\.rawg_games\b", s, re.I)
QueriesAllowedTable(s) ==
    \E i \in 1..Len(s) :
        /\ WordBoundary(s, i)
        /\ \E w \in {kwFROM, kwJOIN} :
              /\ LitAtI(s, i, w)
              /\ LET j == RunEnd(s, i + Len(w), Whitespace)
                 IN  /\ j > i + Len(w)
                     /\ LitAtI(s, j, AllowedTable)
                     /\ WordBoundary(s, j + Len(AllowedTable))

Raise(msg) == [err |-> msg, val |-> <<>>]

Return(v) == [err |-> "", val |-> v]

\* variant of sanitize_sql: the read-statement check placed before the
\* keyword check
sanitize_sql_reordered(text, parses) ==
    LET s == rstrip_semicolon(strip(text))
    IN  IF Contains(s, <<";">>) THEN Raise("Multiple statements")
        ELSE IF Contains(s, <<"-", "-">>) \/ Contains(s, <<"/", "*">>)
                \/ Contains(s, <<"*", "/">>) THEN Raise("Comments not allowed")
        ELSE IF ~StartsAsRead(s) THEN Raise("Only SELECT/WITH allowed")
        ELSE IF FORBIDDEN(s) THEN Raise("Forbidden SQL")
        ELSE IF CATALOG_FORBIDDEN(s) THEN Raise("System schemas not allowed")
        ELSE IF ~QueriesAllowedTable(s) THEN Raise("Must query public.rawg_games")
        ELSE IF ~parses THEN Raise("ParseError")
        ELSE Return(s)

\* variant of sanitize_sql: the argument is returned instead of the trimmed s
sanitize_sql_returns_argument(text, parses) ==
    LET s == rstrip_semicolon(strip(text))
    IN  IF Contains(s, <<";">>) THEN Raise("Multiple statements")
        ELSE IF Contains(s, <<"-", "-">>) \/ Contains(s, <<"/", "*">>)
                \/ Contains(s, <<"*", "/">>) THEN Raise("Comments not allowed")
        ELSE IF FORBIDDEN(s) THEN Raise("Forbidden SQL")
        ELSE IF CATALOG_FORBIDDEN(s) THEN Raise("System schemas not allowed")
        ELSE IF ~StartsAsRead(s) THEN Raise("Only SELECT/WITH allowed")
        ELSE IF ~QueriesAllowedTable(s) THEN Raise("Must query public.rawg_games")
        ELSE IF ~parses THEN Raise("ParseError")
        ELSE Return(text)

\* sanitize_sql; parses is the verdict of sqlglot.parse_one on the text, whose
\* exception (sqlglot.errors.ParseError) is written "ParseError" here
sanitize_sql(text, parses) ==
    LET s == rstrip_semicolon(strip(text))
    IN  IF Contains(s, <<";">>) THEN Raise("Multiple statements")
        ELSE IF Contains(s, <<"-", "-">>) \/ Contains(s, <<"/", "*">>)
                \/ Contains(s, <<"*", "/">>) THEN Raise("Comments not allowed")
        ELSE IF FORBIDDEN(s) THEN Raise("Forbidden SQL")
        ELSE IF CATALOG_FORBIDDEN(s) THEN Raise("System schemas not allowed")
        ELSE IF ~StartsAsRead(s) THEN Raise("Only SELECT/WITH allowed")
        ELSE IF ~QueriesAllowedTable(s) THEN Raise("Must query public.rawg_games")
        ELSE IF ~parses THEN Raise("ParseError")
        ELSE Return(s)

-----------------------------------------------------------------------------
(* Extraction of the candidate statement from a completion.                *)

\* the backquote character (written by name: the character itself cannot
\* appear in a string of this language)
Backquote == "backquote"

Fence == <<Backquote, Backquote, Backquote>>

FenceTag == <<"s","q","l">>

Min(S) == CHOOSE x \in S : \A y \in S : x <= y

\* positions where the fenced-block search (opening fence, optional tag sql,
\* whitespace, lazy interior, whitespace, closing fence; re.I | re.S) can
\* start: an opening fence with a closing fence after it
FenceStarts(t) ==
    {i \in 1..Len(t) : LitAt(t, i, Fence)
                       /\ \E j \in (i + 3)..Len(t) : LitAt(t, j, Fence)}

\* m.group(1).strip() of that search: the text between the opening fence
\* (with its optional tag) and the first closing fence after it
FenceInterior(t) ==
    LET i == Min(FenceStarts(t))
        p == IF LitAtI(t, i + 3, FenceTag) THEN i + 6 ELSE i + 3
        j == Min({k \in p..Len(t) : LitAt(t, k, Fence)})
    IN  strip(SubSeq(t, p, j - 1))

\* positions where the search for \b(SELECT|WITH)\b and the rest of the text
\* (flags i, s) can start
StatementStarts(t) ==
    {i \in 1..Len(t) :
        /\ WordBoundary(t, i)
        /\ \E w \in {kwSELECT, kwWITH} :
              LitAtI(t, i, w) /\ WordBoundary(t, i + Len(w))}

\* variant of extract_first_select: the fenced block is not looked for
extract_first_select_ignores_fence(txt) ==
    LET t == strip(txt)
    IN  IF StatementStarts(t) = {} THEN Raise("No SQL returned")
        ELSE Return(rstrip_semicolon(
                 strip(SubSeq(t, Min(StatementStarts(t)), Len(t)))))

extract_first_select(txt) ==
    LET t0 == strip(txt)
        t  == IF FenceStarts(t0) # {} THEN FenceInterior(t0) ELSE t0
    IN  IF StatementStarts(t) = {} THEN Raise("No SQL returned")
        ELSE Return(rstrip_semicolon(
                 strip(SubSeq(t, Min(StatementStarts(t)), Len(t)))))

-----------------------------------------------------------------------------
(* Limit enforcement.                                                      *)

DigitVal(c) == (CHOOSE i \in 1..10 : DigitChars[i] = c) - 1

\* int(m.group(1)) of a run of decimal digits
RECURSIVE ParseInt(_)
ParseInt(ds) ==
    IF ds = <<>> THEN 0
    ELSE 10 * ParseInt(SubSeq(ds, 1, Len(ds) - 1)) + DigitVal(ds[Len(ds)])

\* f"{n}" for an int n
RECURSIVE FormatNat(_)
FormatNat(n) ==
    IF n < 10 THEN <<DigitChars[n + 1]>>
    ELSE FormatNat(n \div 10) \o <<DigitChars[(n % 10) + 1]>>

FormatInt(n) == IF n < 0 THEN <<"-">> \o FormatNat(0 - n) ELSE FormatNat(n)

\* where the digits of r"(?is)\bLIMIT\s+(\d+)\b" start when it is tried at i
LimitDigits(s, i) == RunEnd(s, i + Len(kwLIMIT), Whitespace)

\* where that match ends (exclusive)
LimitEnd(s, i) == RunEnd(s, LimitDigits(s, i), DigitSet)

\* r"(?is)\bLIMIT\s+(\d+)\b" matches at position i
LimitAt(s, i) ==
    /\ WordBoundary(s, i)
    /\ LitAtI(s, i, kwLIMIT)
    /\ LimitDigits(s, i) > i + Len(kwLIMIT)
    /\ LimitEnd(s, i) > LimitDigits(s, i)
    /\ WordBoundary(s, LimitEnd(s, i))

LimitStarts(s) == {i \in 1..Len(s) : LimitAt(s, i)}

LimitClause(n) == kwLIMIT \o <<" ">> \o FormatInt(n)

\* re.sub(r"(?is)\bLIMIT\s+\d+\b", f"LIMIT {limit}", sql) from position i on:
\* re.sub has no count argument, every match is replaced
RECURSIVE SubAllLimits(_, _, _)
SubAllLimits(s, i, limit) ==
    IF i > Len(s) THEN <<>>
    ELSE IF LimitAt(s, i)
         THEN LimitClause(limit) \o SubAllLimits(s, LimitEnd(s, i), limit)
         ELSE <<s[i]>> \o SubAllLimits(s, i + 1, limit)

\* variant of ensure_limit: the comparison n > limit reversed
ensure_limit_reversed(text, limit) ==
    IF LimitStarts(text) # {}
    THEN LET i == Min(LimitStarts(text))
             n == ParseInt(SubSeq(text, LimitDigits(text, i), LimitEnd(text, i) - 1))
         IN  IF n < limit THEN SubAllLimits(text, 1, limit) ELSE text
    ELSE text \o <<"\n">> \o LimitClause(limit)

\* variant of ensure_limit: the return inside `if m:` is missing, so a
\* statement with a limit clause also reaches the final append
ensure_limit_falls_through(text, limit) ==
    IF LimitStarts(text) # {}
    THEN LET i == Min(LimitStarts(text))
             n == ParseInt(SubSeq(text, LimitDigits(text, i), LimitEnd(text, i) - 1))
         IN  (IF n > limit THEN SubAllLimits(text, 1, limit) ELSE text)
                 \o <<"\n">> \o LimitClause(limit)
    ELSE text \o <<"\n">> \o LimitClause(limit)

ensure_limit(text, limit) ==
    IF LimitStarts(text) # {}
    THEN LET i == Min(LimitStarts(text))
             n == ParseInt(SubSeq(text, LimitDigits(text, i), LimitEnd(text, i) - 1))
         IN  IF n > limit THEN SubAllLimits(text, 1, limit) ELSE text
    ELSE text \o <<"\n">> \o LimitClause(limit)

-----------------------------------------------------------------------------
(* Guarded execution.                                                      *)

\* [dict(r._mapping) for i, r in enumerate(res) if i < max_rows], from the
\* k-th row of the cursor on: the rows kept and the number of rows read
RECURSIVE ReadRows(_, _, _)
ReadRows(result, k, max_rows) ==
    IF k > Len(result) THEN [kept |-> <<>>, read |-> 0]
    ELSE LET rest == ReadRows(result, k + 1, max_rows)
         IN  [kept |-> IF k - 1 < max_rows THEN <<result[k]>> \o rest.kept
                       ELSE rest.kept,
              read |-> 1 + rest.read]

-----------------------------------------------------------------------------
(* The request handlers ask_text and ask_visual.                           *)

\* defaults of MAX_ROWS_TEXT and MAX_ROWS_VISUAL
MAX_ROWS_TEXT == 50

MAX_ROWS_VISUAL == 200

\* values of <<MAX_ROWS_TEXT, MAX_ROWS_VISUAL>> the environment can set: the
\* defaults, and a deployment with small ceilings
EnvCeilings == {<<MAX_ROWS_TEXT, MAX_ROWS_VISUAL>>, <<2, 5>>}

\* the ceiling a handler passes to ensure_limit and to run_sql
MaxRows(m, e) == IF m = "text" THEN e[1] ELSE e[2]

\* the prefix of the detail of the handler's HTTPException(status_code=400)
FailedPrefix(m) == IF m = "text" THEN "ask-text failed: " ELSE "ask-visual failed: "

\* most rows the database cursor delivers
MaxCursor == 4

\* most pieces a completion is put together from
MaxPieces == 3

Statement == <<"S","E","L","E","C","T"," ","a"," ","F","R","O","M"," ","p","u","b","l","i","c",".","r","a","w","g","_","g","a","m","e","s">>

\* the pieces completions are put together from
Pieces == <<
    Statement,
    <<";">>,
    <<"W","I","T","H"," ","t"," ","A","S"," ","(","S","E","L","E","C","T"," ","1"," ","L","I","M","I","T"," ","1",")"," ","S","E","L","E","C","T"," ","a"," ","F","R","O","M"," ","p","u","b","l","i","c",".","r","a","w","g","_","g","a","m","e","s">>>>

RECURSIVE Concat(_)
Concat(ps) == IF ps = <<>> THEN <<>> ELSE Head(ps) \o Concat(Tail(ps))

\* every concatenation of at most n of the given pieces
Texts(pieces, n) ==
    UNION {{Concat([i \in 1..k |-> pieces[f[i]]]) : f \in [1..k -> DOMAIN pieces]} :
              k \in 0..n}

\* a completion as the model answers: bare, or in a fenced block tagged sql
Fenced(body) == Fence \o FenceTag \o <<"\n">> \o body \o <<"\n">> \o Fence

Completions ==
    LET bodies == Texts(Pieces, MaxPieces)
    IN  bodies \cup {Fenced(b) : b \in bodies}

Stages == <<"hf_generate_text", "extract_first_select", "sanitize_sql",
            "ensure_limit", "run_sql">>

Init ==
    /\ pc = "start"
    /\ mode \in {"text", "visual"}
    /\ env \in EnvCeilings
    /\ raw = <<>>
    /\ sql = <<>>
    /\ calls = <<>>
    /\ executed = <<>>
    /\ status = 0
    /\ detail = <<>>
    /\ cursor = <<>>
    /\ fetched = 0
    /\ rows = <<>>
    /\ arg = <<>>
    /\ lim = 0
    /\ res = <<>>
    /\ res2 = <<>>
    /\ EngineIdle /\ VisualIdle /\ IngestIdle

\* what the request handlers leave alone
direct == <<callVars, engineVars, visualVars, ingestVars>>

\* the handler ends with an HTTPException
Fail(code, message) ==
    /\ status' = code
    /\ detail' = message
    /\ pc' = "done"

\* hf_generate_text returns the stripped content of the completion
GenerateOk ==
    /\ pc = "start"
    /\ calls' = Append(calls, "hf_generate_text")
    /\ \E c \in Completions : raw' = strip(c)
    /\ pc' = "extract"
    /\ UNCHANGED <<mode, env, sql, executed, status, detail, cursor, fetched, rows, direct>>

\* hf_generate_text fails: HTTPException(502), which the handler re-raises
GenerateFail ==
    /\ pc = "start"
    /\ calls' = Append(calls, "hf_generate_text")
    /\ Fail(502, <<"HF generation failed: ", "request error">>)
    /\ UNCHANGED <<mode, env, raw, sql, executed, cursor, fetched, rows, direct>>

\* generate_sql: sql = extract_first_select(raw)
Extract ==
    /\ pc = "extract"
    /\ calls' = Append(calls, "extract_first_select")
    /\ LET r == extract_first_select(raw)
       IN  IF r.err # ""
           THEN Fail(400, <<FailedPrefix(mode), r.err>>) /\ UNCHANGED sql
           ELSE sql' = r.val /\ pc' = "sanitize" /\ UNCHANGED <<status, detail>>
    /\ UNCHANGED <<mode, env, raw, executed, cursor, fetched, rows, direct>>

\* variant of Sanitize: a rejected candidate is passed on instead of raised
SanitizeLenient ==
    /\ pc = "sanitize"
    /\ calls' = Append(calls, "sanitize_sql")
    /\ \E parses \in BOOLEAN :
          LET r == sanitize_sql(sql, parses)
          IN  sql' = IF r.err # "" THEN sql ELSE r.val
    /\ pc' = "limit"
    /\ UNCHANGED <<status, detail>>
    /\ UNCHANGED <<mode, env, raw, executed, cursor, fetched, rows, direct>>

\* generate_sql: return sanitize_sql(sql)
Sanitize ==
    /\ pc = "sanitize"
    /\ calls' = Append(calls, "sanitize_sql")
    /\ \E parses \in BOOLEAN :
          LET r == sanitize_sql(sql, parses)
          IN  IF r.err # ""
              THEN Fail(400, <<FailedPrefix(mode), r.err>>) /\ UNCHANGED sql
              ELSE sql' = r.val /\ pc' = "limit" /\ UNCHANGED <<status, detail>>
    /\ UNCHANGED <<mode, env, raw, executed, cursor, fetched, rows, direct>>

\* sql = ensure_limit(generate_sql(...), MAX_ROWS_...)
Limit ==
    /\ pc = "limit"
    /\ calls' = Append(calls, "ensure_limit")
    /\ sql' = ensure_limit(sql, MaxRows(mode, env))
    /\ pc' = "run"
    /\ UNCHANGED <<mode, env, raw, executed, status, detail, cursor, fetched, rows, direct>>

\* most rows the database delivers for a statement: a statement that ends
\* with its limit clause delivers no more rows than that limit
MostRows(text) ==
    LET last == {i \in LimitStarts(text) : LimitEnd(text, i) = Len(text) + 1}
    IN  IF last = {} THEN MaxCursor
        ELSE LET i == Min(last)
                 n == ParseInt(SubSeq(text, LimitDigits(text, i), Len(text)))
             IN  IF n < MaxCursor THEN n ELSE MaxCursor

\* run_sql returns: the statement is executed and the cursor is read
ExecuteOk ==
    /\ pc = "run"
    /\ calls' = Append(calls, "run_sql")
    /\ executed' = Append(executed, sql)
    /\ \E n \in 0..MostRows(sql) : cursor' = [i \in 1..n |-> i]
    /\ LET r == ReadRows(cursor', 1, MaxRows(mode, env))
       IN  rows' = r.kept /\ fetched' = r.read
    /\ pc' = "respond"
    /\ UNCHANGED <<mode, env, raw, sql, status, detail, direct>>

\* the exceptions run_sql raises, with the text str gives for each: get_engine
\* finds the DB settings missing (its own message); the driver cannot open
\* the connection; the database rejects or times out the statement.  The
\* driver's texts name the server it was connecting to and the statement.
RunSqlErrors == {
    [at |-> "get_engine", driver |-> FALSE, text |-> "DB env vars missing"],
    [at |-> "begin", driver |-> TRUE,
     text |-> "(psycopg2.OperationalError) connection to server at DB_HOST, port DB_PORT failed"],
    [at |-> "execute", driver |-> TRUE,
     text |-> "(psycopg2.errors.QueryCanceled) canceling statement due to statement timeout [SQL: ...]"]}

\* str(e)
str(e) == e.text

\* run_sql raises, and the handler wraps the exception: the detail is the
\* handler's prefix followed by str(e)
ExecuteFail ==
    /\ pc = "run"
    /\ calls' = Append(calls, "run_sql")
    /\ \E e \in RunSqlErrors :
          /\ executed' = IF e.at = "execute" THEN Append(executed, sql)
                         ELSE executed
          /\ Fail(400, <<FailedPrefix(mode), str(e)>>)
    /\ UNCHANGED <<mode, env, raw, sql, cursor, fetched, rows, direct>>

\* the exceptions ask_visual meets between run_sql and its response
NoException == [type |-> "", status_code |-> 0, detail |-> ""]

EmptyResult == [type |-> "HTTPException", status_code |-> 404, detail |-> "No rows returned"]

\* pandas, on naming the columns of a frame that has one column only
LengthMismatch ==
    [type |-> "ValueError", status_code |-> 0,
     detail |-> "Length mismatch: Expected axis has 1 elements, new values have 2 elements"]

\* variant of ExceptHandler: every exception is wrapped
ExceptHandler_wraps_all(m, e) ==
    [status |-> 400, detail |-> <<FailedPrefix(m), e.detail>>]

\* except HTTPException: raise; except Exception as e: raise HTTPException(400)
ExceptHandler(m, e) ==
    IF e.type = "HTTPException"
    THEN [status |-> e.status_code, detail |-> <<e.detail>>]
    ELSE [status |-> 400, detail |-> <<FailedPrefix(m), e.detail>>]

\* ask_text returns the rows.  ask_visual raises HTTPException(404) on an
\* empty result; a result with rows has the columns of a chart, or has one
\* column only and fails to be framed; the handler lets an HTTPException
\* pass and wraps any other exception
Respond ==
    /\ pc = "respond"
    /\ \E e \in (IF mode = "text" THEN {NoException}
                 ELSE IF rows = <<>> THEN {EmptyResult}
                 ELSE {NoException, LengthMismatch}) :
          IF e = NoException
          THEN status' = 200 /\ pc' = "done" /\ UNCHANGED detail
          ELSE Fail(ExceptHandler(mode, e).status, ExceptHandler(mode, e).detail)
    /\ UNCHANGED <<mode, env, raw, sql, calls, executed, cursor, fetched, rows, direct>>

Next ==
    \/ GenerateOk
    \/ GenerateFail
    \/ Extract
    \/ Sanitize
    \/ Limit
    \/ ExecuteOk
    \/ ExecuteFail
    \/ Respond

Spec == Init /\ [][Next]_vars

-----------------------------------------------------------------------------
(* Direct calls of sanitize_sql on candidate statements.                   *)

\* most pieces a candidate statement is put together from
MaxWords == 3

CandidatePieces == <<
    <<"S","E","L","E","C","T"," ","n","a","m","e">>,
    <<" ","F","R","O","M"," ","p","u","b","l","i","c",".","r","a","w","g","_","g","a","m","e","s">>,
    <<" ","J","O","I","N"," ","o","t","h","e","r">>,
    <<";">>,
    <<" ","u","p","d","a","t","e","d">>,
    <<"D","R","O","P"," ","T","A","B","L","E"," ","x">>,
    <<"-","-">>,
    <<" ","p","g","_","c","a","t","a","l","o","g">>,
    <<" ","D","e","l","e","t","e">>>>

Candidates == Texts(CandidatePieces, MaxWords)

InitSanitize ==
    /\ pc = "call"
    /\ arg \in Candidates
    /\ res = <<>>
    /\ mode = "text"
    /\ env = <<MAX_ROWS_TEXT, MAX_ROWS_VISUAL>>
    /\ raw = <<>>
    /\ sql = <<>>
    /\ calls = <<>>
    /\ executed = <<>>
    /\ status = 0
    /\ detail = <<>>
    /\ cursor = <<>>
    /\ fetched = 0
    /\ rows = <<>>
    /\ lim = 0
    /\ res2 = <<>>
    /\ EngineIdle /\ VisualIdle /\ IngestIdle

\* what a direct call of a function leaves alone
handler == <<requestVars, engineVars, visualVars, ingestVars>>

\* res = sanitize_sql(arg), or the ValueError it raises
CallSanitize ==
    /\ pc = "call"
    /\ \E parses \in BOOLEAN : res' = sanitize_sql(arg, parses)
    /\ pc' = "returned"
    /\ UNCHANGED <<handler, arg, lim, res2>>

SpecSanitize == InitSanitize /\ [][CallSanitize]_vars

-----------------------------------------------------------------------------
(* Direct calls of ensure_limit on validated statements.                   *)

\* most clauses that follow the head of a validated statement
MaxClauses == 3

StatementHeads == {Statement, <<"S","E","L","E","C","T"," ","b"," ","F","R","O","M"," ","(","S","E","L","E","C","T"," ","a"," ","F","R","O","M"," ","p","u","b","l","i","c",".","r","a","w","g","_","g","a","m","e","s">>}

ClausePieces == <<
    <<" ","L","I","M","I","T"," ","5","0","0">>,
    <<" ","l","i","m","i","t"," ","5">>,
    <<"\n","L","I","M","I","T"," "," ","0","0","7">>,
    <<")"," ","t">>,
    <<" ","L","I","M","I","T"," ","5","x">>,
    <<" ","O","F","F","S","E","T"," ","2">>>>

\* the statements sanitize_sql returns among the heads followed by clauses
ValidatedStatements ==
    LET texts == {h \o c : h \in StatementHeads, c \in Texts(ClausePieces, MaxClauses)}
    IN  {sanitize_sql(t, TRUE).val : t \in {u \in texts : sanitize_sql(u, TRUE).err = ""}}

\* the ceilings the handlers pass
Ceilings == UNION {{e[1], e[2]} : e \in EnvCeilings}

InitLimit ==
    /\ pc = "call"
    /\ arg \in ValidatedStatements
    /\ lim \in Ceilings
    /\ res = <<>>
    /\ res2 = <<>>
    /\ mode = "text"
    /\ env = <<MAX_ROWS_TEXT, MAX_ROWS_VISUAL>>
    /\ raw = <<>>
    /\ sql = <<>>
    /\ calls = <<>>
    /\ executed = <<>>
    /\ status = 0
    /\ detail = <<>>
    /\ cursor = <<>>
    /\ fetched = 0
    /\ rows = <<>>
    /\ EngineIdle /\ VisualIdle /\ IngestIdle

\* res = ensure_limit(arg, lim)
CallLimit ==
    /\ pc = "call"
    /\ res' = ensure_limit(arg, lim)
    /\ pc' = "once"
    /\ UNCHANGED <<handler, arg, lim, res2>>

\* res2 = ensure_limit(res, lim)
CallLimitAgain ==
    /\ pc = "once"
    /\ res2' = ensure_limit(res, lim)
    /\ pc' = "twice"
    /\ UNCHANGED <<handler, arg, lim, res>>

NextLimit == CallLimit \/ CallLimitAgain

SpecLimit == InitLimit /\ [][NextLimit]_vars

-----------------------------------------------------------------------------
(* Concurrent requests in get_engine.  The handlers are plain functions,   *)
(* so the framework runs each request on a thread of its pool; get_engine  *)
(* holds no lock, and a thread switch can fall between any two of its      *)
(* statements.                                                             *)

\* most request threads inside get_engine at once
MaxThreads == 3

Threads == 1..MaxThreads

\* the requests and the call handlers leave alone
engineRest == <<pc, requestVars, callVars, visualVars, ingestVars>>

InitEngine ==
    /\ pc = "threads"
    /\ _engine = 0
    /\ created = 0
    /\ assigned = 0
    /\ thr = [t \in Threads |-> [at |-> "call", local |-> 0, got |-> 0]]
    /\ db_env \in BOOLEAN
    /\ mode = "text"
    /\ env = <<MAX_ROWS_TEXT, MAX_ROWS_VISUAL>>
    /\ raw = <<>>
    /\ sql = <<>>
    /\ calls = <<>>
    /\ executed = <<>>
    /\ status = 0
    /\ detail = <<>>
    /\ cursor = <<>>
    /\ fetched = 0
    /\ rows = <<>>
    /\ arg = <<>>
    /\ lim = 0
    /\ res = <<>>
    /\ res2 = <<>>
    /\ VisualIdle /\ IngestIdle

\* thread t moves to position p
Goto(t, p) == thr' = [thr EXCEPT ![t].at = p]

\* if _engine is not None: the global is set, go on to return it
TestSet(t) ==
    /\ thr[t].at = "call"
    /\ _engine # 0
    /\ Goto(t, "return")
    /\ UNCHANGED <<_engine, created, assigned, db_env, engineRest>>

\* if _engine is not None: the global is None, fall through
TestNone(t) ==
    /\ thr[t].at = "call"
    /\ _engine = 0
    /\ Goto(t, "settings")
    /\ UNCHANGED <<_engine, created, assigned, db_env, engineRest>>

\* if not all of the DB settings: raise RuntimeError
SettingsMissing(t) ==
    /\ thr[t].at = "settings"
    /\ ~db_env
    /\ Goto(t, "raised")
    /\ UNCHANGED <<_engine, created, assigned, db_env, engineRest>>

SettingsPresent(t) ==
    /\ thr[t].at = "settings"
    /\ db_env
    /\ Goto(t, "create")
    /\ UNCHANGED <<_engine, created, assigned, db_env, engineRest>>

\* create_engine builds a new engine object, held on the thread's stack
CreateEngine(t) ==
    /\ thr[t].at = "create"
    /\ created' = created + 1
    /\ thr' = [thr EXCEPT ![t].at = "assign", ![t].local = created + 1]
    /\ UNCHANGED <<_engine, assigned, db_env, engineRest>>

\* _engine = the object create_engine returned
AssignEngine(t) ==
    /\ thr[t].at = "assign"
    /\ _engine' = thr[t].local
    /\ assigned' = assigned + 1
    /\ Goto(t, "return")
    /\ UNCHANGED <<created, db_env, engineRest>>

\* return _engine: the caller receives what the global holds now
ReturnEngine(t) ==
    /\ thr[t].at = "return"
    /\ thr' = [thr EXCEPT ![t].at = "returned", ![t].got = _engine]
    /\ UNCHANGED <<_engine, created, assigned, db_env, engineRest>>

NextEngine ==
    \E t \in Threads :
        \/ TestSet(t)
        \/ TestNone(t)
        \/ SettingsMissing(t)
        \/ SettingsPresent(t)
        \/ CreateEngine(t)
        \/ AssignEngine(t)
        \/ ReturnEngine(t)

SpecEngine == InitEngine /\ [][NextEngine]_vars

-----------------------------------------------------------------------------
(* Direct calls of extract_first_select on a statement, bare and in a      *)
(* fenced block.                                                           *)

\* most clauses that follow the head of a statement
MaxParts == 2

ExtractHeads == {<<"S","E","L","E","C","T"," ","a">>,
                 <<"w","i","t","h"," ","t"," ","a","s"," ","(","s","e","l","e","c","t"," ","1",")"," ","s","e","l","e","c","t"," ","a">>}

ExtractParts == <<
    <<" ","F","R","O","M"," ","p","u","b","l","i","c",".","r","a","w","g","_","g","a","m","e","s">>,
    <<"\n","W","H","E","R","E"," ","a"," ","="," ","'",";","'">>,
    <<" ","O","R","D","E","R"," ","B","Y"," ","a">>>>

\* statements: a head and its clauses, with no terminator
ExtractStatements == {h \o c : h \in ExtractHeads, c \in Texts(ExtractParts, MaxParts)}

\* the statement given unwrapped, with or without its terminator
BareForms(s) == {s, s \o <<";">>}

\* the statement in a fenced block: with or without the annotation sql, with
\* or without the terminator, with or without line breaks inside the fence
FencedForms(s) ==
    {Fence \o tag \o open \o s \o term \o close \o Fence :
        tag \in {<<>>, FenceTag, <<"S","Q","L">>},
        open \in {<<>>, <<" ">>, <<"\n">>},
        term \in {<<>>, <<";">>},
        close \in {<<>>, <<"\n">>}}

InitExtract ==
    /\ pc = "call"
    /\ \E s \in ExtractStatements :         \* sql holds the statement itself
          /\ sql = s
          /\ arg \in BareForms(s)
          /\ raw \in FencedForms(s)
    /\ res = <<>>
    /\ res2 = <<>>
    /\ lim = 0
    /\ mode = "text"
    /\ env = <<MAX_ROWS_TEXT, MAX_ROWS_VISUAL>>
    /\ calls = <<>>
    /\ executed = <<>>
    /\ status = 0
    /\ detail = <<>>
    /\ cursor = <<>>
    /\ fetched = 0
    /\ rows = <<>>
    /\ EngineIdle /\ VisualIdle /\ IngestIdle

\* res = extract_first_select(arg), the statement given unwrapped
CallExtract ==
    /\ pc = "call"
    /\ res' = extract_first_select(arg)
    /\ pc' = "bare"
    /\ UNCHANGED <<handler, arg, lim, res2>>

\* res2 = extract_first_select(raw), the statement in its fenced block
CallExtractFenced ==
    /\ pc = "bare"
    /\ res2' = extract_first_select(raw)
    /\ pc' = "fenced"
    /\ UNCHANGED <<handler, arg, lim, res>>

NextExtract == CallExtract \/ CallExtractFenced

SpecExtract == InitExtract /\ [][NextExtract]_vars

-----------------------------------------------------------------------------
(* The chart response of ask_visual: the result shaped into a series, and  *)
(* the SQL text made safe for the X-SQL header.                            *)

\* default of max_len
DefaultMaxLen == 800

Ellipsis == <<".", ".", ".">>

\* s.replace(old, new) for single characters
replace(s, old, new) == [i \in DOMAIN s |-> IF s[i] = old THEN new ELSE s[i]]

\* re.sub of runs of whitespace by one space: of each run the first character
\* stays, as a space
CollapseWhitespace(s) ==
    LET StartsRun(i) == s[i] \notin Whitespace \/ i = 1 \/ s[i - 1] \notin Whitespace
        kept == SelectSeq([i \in DOMAIN s |-> i], StartsRun)
    IN  [j \in DOMAIN kept |-> IF s[kept[j]] \in Whitespace THEN " " ELSE s[kept[j]]]

\* variant of safe_header_value: whitespace runs are kept as they are
safe_header_value_keeps_runs(s, max_len) ==
    LET t == strip(s)
    IN  IF Len(t) > max_len THEN SubSeq(t, 1, max_len) \o Ellipsis ELSE t

safe_header_value(s, max_len) ==
    LET t == strip(CollapseWhitespace(replace(replace(s, "\r", " "), "\n", " ")))
    IN  IF Len(t) > max_len THEN SubSeq(t, 1, max_len) \o Ellipsis ELSE t

\* rows kept by head(30)
HeadRows == 30

\* characters kept by str.slice(0, 40)
LabelSlice == 40

\* the values a result column holds: numbers, text and NULL
Number(n) == [k |-> "number", v |-> n]

Text(s) == [k |-> "text", v |-> s]

Null == [k |-> "null", v |-> 0]

\* text that Python reads as an integer: an optional sign and digits
IsNumeral(s) ==
    LET d == IF s # <<>> /\ s[1] = "-" THEN Tail(s) ELSE s
    IN  d # <<>> /\ \A i \in DOMAIN d : d[i] \in DigitSet

\* astype(str)
astype_str(x) ==
    CASE x.k = "number" -> FormatInt(x.v)
      [] x.k = "text" -> x.v
      [] x.k = "null" -> <<"N", "o", "n", "e">>

\* str.slice(0, stop)
slice(s, stop) == SubSeq(s, 1, IF Len(s) < stop THEN Len(s) ELSE stop)

\* pd.to_numeric(errors="coerce"): what is not a number becomes NaN
to_numeric(x) ==
    CASE x.k = "number" -> [nan |-> FALSE, v |-> x.v]
      [] x.k = "text" ->
            IF IsNumeral(x.v)
            THEN [nan |-> FALSE,
                  v |-> IF x.v[1] = "-" THEN 0 - ParseInt(Tail(x.v)) ELSE ParseInt(x.v)]
            ELSE [nan |-> TRUE, v |-> 0]
      [] x.k = "null" -> [nan |-> TRUE, v |-> 0]

fillna(y, z) == IF y.nan THEN z ELSE y.v

\* a row is a sequence of <<column, value>> pairs, in the order of the query
Columns(rs) == [j \in DOMAIN rs[1] |-> rs[1][j][1]]

Cell(r, column) == r[CHOOSE j \in DOMAIN r : r[j][1] = column][2]

RECURSIVE InsertByValue(_, _)
InsertByValue(x, s) ==
    IF s = <<>> THEN <<x>>
    ELSE IF Head(s).value >= x.value THEN <<Head(s)>> \o InsertByValue(x, Tail(s))
    ELSE <<x>> \o s

\* sort_values("value", ascending=False); rows of equal value stay in the
\* order they had
RECURSIVE sort_values(_)
sort_values(df) ==
    IF df = <<>> THEN <<>>
    ELSE InsertByValue(df[Len(df)], sort_values(SubSeq(df, 1, Len(df) - 1)))

head(df, n) == SubSeq(df, 1, IF Len(df) < n THEN Len(df) ELSE n)

\* the frame has the columns label and value
Named(rs) == "label" \in Range(Columns(rs)) /\ "value" \in Range(Columns(rs))

\* the exception the shaping of the result raises, if any
ShapeException(rs) ==
    IF rs = <<>> THEN EmptyResult
    ELSE IF ~Named(rs) /\ Len(Columns(rs)) < 2 THEN LengthMismatch
    ELSE NoException

\* the frame that is plotted: label and value by name, or else the first two
\* columns; labels as text cut to 40 characters, values as numbers with 0
\* for NaN; sorted by value, largest first; the first 30 rows
ChartSeries(rs) ==
    LET label(r) == IF Named(rs) THEN Cell(r, "label") ELSE r[1][2]
        value(r) == IF Named(rs) THEN Cell(r, "value") ELSE r[2][2]
        df == [i \in DOMAIN rs |->
                  [label |-> slice(astype_str(label(rs[i])), LabelSlice),
                   value |-> fillna(to_numeric(value(rs[i])), 0)]]
    IN  head(sort_values(df), HeadRows)

\* most rows of a result beyond the 30 that are plotted
MaxExtraRows == 2

\* longest cycle of values a result column repeats
MaxCycle == 2

Repeat(c, n) == [i \in 1..n |-> c]

Scalars == <<Number(7), Number(0 - 3), Text(<<"1", "2">>), Text(<<"n", "/", "a">>), Null>>

ValueCycles == UNION {[1..k -> Range(Scalars)] : k \in 1..MaxCycle}

\* the label of row i: text of 38 to 42 characters, or a number
LabelOf(i) ==
    IF i % 4 = 0 THEN Number(i)
    ELSE Text(Repeat("g", LabelSlice - 2 + (i % 5)))

ColumnSets == {<<"label", "value">>, <<"value", "label">>, <<"name", "rating">>,
               <<"name", "rating", "id">>, <<"total">>}

RowCounts == (0..3) \cup ((HeadRows - 1)..(HeadRows + MaxExtraRows))

\* a result of n rows with the given columns, whose values repeat the cycle
ResultSet(columns, n, cycle) ==
    [i \in 1..n |->
        [j \in DOMAIN columns |->
            <<columns[j],
              IF columns[j] \in {"label", "name"} THEN LabelOf(i)
              ELSE IF columns[j] = "id" THEN Number(i)
              ELSE cycle[((i - 1) % Len(cycle)) + 1]>>]]

\* a statement longer than the header allows
LongStatement == Statement \o <<" ", "W", "H", "E", "R", "E", " ">>
                     \o Repeat("a", DefaultMaxLen) \o <<"\n", "=", " ", "1">>

\* the texts of sql: one with line breaks, one too long for the header
FinalStatements == {<<"S","E","L","E","C","T"," ","a"," ","A","S"," ","l","a","b","e","l",",","\r","\n"," "," "," "," "," "," "," ","b"," ","A","S"," ","v","a","l","u","e","\n"," "," ","F","R","O","M"," ","p","u","b","l","i","c",".","r","a","w","g","_","g","a","m","e","s","\n","\n"," ","L","I","M","I","T"," ","2","0","0">>,
                    LongStatement}

InitVisual ==
    /\ pc = "shape"
    /\ mode = "visual"
    /\ env = <<MAX_ROWS_TEXT, MAX_ROWS_VISUAL>>
    /\ sql \in FinalStatements
    /\ \E columns \in ColumnSets : \E n \in RowCounts : \E cycle \in ValueCycles :
          rows = ResultSet(columns, n, cycle)
    /\ raw = <<>>
    /\ calls = <<>>
    /\ executed = <<>>
    /\ status = 0
    /\ detail = <<>>
    /\ cursor = <<>>
    /\ fetched = 0
    /\ arg = <<>>
    /\ lim = 0
    /\ res = <<>>
    /\ res2 = <<>>
    /\ EngineIdle /\ VisualIdle /\ IngestIdle

\* ask_visual from the rows run_sql returned to its response
ShapeResult ==
    /\ pc = "shape"
    /\ LET e == ShapeException(rows)
       IN  IF e # NoException
           THEN /\ status' = ExceptHandler(mode, e).status
                /\ detail' = ExceptHandler(mode, e).detail
                /\ UNCHANGED visualVars
           ELSE /\ series' = ChartSeries(rows)
                /\ image' = "png"
                /\ header' = safe_header_value(sql, DefaultMaxLen)
                /\ status' = 200
                /\ UNCHANGED detail
    /\ pc' = "done"
    /\ UNCHANGED <<mode, env, raw, sql, calls, executed, cursor, fetched, rows,
                   callVars, engineVars, ingestVars>>

SpecVisual == InitVisual /\ [][ShapeResult]_vars

-----------------------------------------------------------------------------
(* Direct calls of safe_header_value.                                      *)

\* most pieces a short header text is put together from
MaxHeaderPieces == 3

\* most characters a long header text has beyond max_len
MaxOver == 3

\* a small max_len, besides the default
SmallMaxLen == 3

HeaderPieces == <<<<"a">>, <<" ">>, <<"\n">>, <<"\r">>, <<"\t">>>>

\* short texts, and texts about as long as the default max_len: a run of
\* letters with a piece before it and a piece after it
HeaderTexts ==
    Texts(HeaderPieces, MaxHeaderPieces)
    \cup {pre \o Repeat("x", n) \o post :
            pre \in Texts(HeaderPieces, 1), post \in Texts(HeaderPieces, 1) \cup {<<" ","\n"," ","b">>},
            n \in (DefaultMaxLen - 2)..(DefaultMaxLen + MaxOver)}

InitHeader ==
    /\ pc = "call"
    /\ arg \in HeaderTexts
    /\ lim \in {DefaultMaxLen, SmallMaxLen}
    /\ res = <<>>
    /\ res2 = <<>>
    /\ mode = "visual"
    /\ env = <<MAX_ROWS_TEXT, MAX_ROWS_VISUAL>>
    /\ raw = <<>>
    /\ sql = <<>>
    /\ calls = <<>>
    /\ executed = <<>>
    /\ status = 0
    /\ detail = <<>>
    /\ cursor = <<>>
    /\ fetched = 0
    /\ rows = <<>>
    /\ EngineIdle /\ VisualIdle /\ IngestIdle

\* res = safe_header_value(arg, max_len=lim)
CallHeader ==
    /\ pc = "call"
    /\ res' = safe_header_value(arg, lim)
    /\ pc' = "returned"
    /\ UNCHANGED <<handler, arg, lim, res2>>

SpecHeader == InitHeader /\ [][CallHeader]_vars

-----------------------------------------------------------------------------
(* Runs of lambda_handler of src/lambdas/lambda_masiva.py, one after the   *)
(* other, against the state object and the data objects in S3.             *)

PAGES_PER_RUN == 10

\* most runs of lambda_handler
MaxRuns == 3

\* values of event["mode"]: the default, and the daily refresh
Modes == {"initial", "daily"}

is_daily(m) == m = "daily"

\* the page a run starts at: 1 in a daily run, else the content of the state
\* object, or 1 when there is none (NoSuchKey)
current_page(m) ==
    IF is_daily(m) THEN 1
    ELSE IF page_state = 0 THEN 1 ELSE page_state

end_page(m, pages_processed) == current_page(m) + pages_processed - 1

\* variant of next_page: the cursor moves on by a whole run
next_page_whole_run(m, pages_processed) == current_page(m) + PAGES_PER_RUN

next_page(m, pages_processed) == current_page(m) + pages_processed

\* the data object a run puts: payload fields mode, start_page and end_page
DataObject(m, pages_processed) ==
    [mode |-> m, start_page |-> current_page(m),
     end_page |-> end_page(m, pages_processed)]

ingestRest == <<pc, requestVars, callVars, engineVars, visualVars>>

InitIngest ==
    /\ pc = "runs"
    /\ page_state = 0
    /\ objects = <<>>
    /\ late = FALSE
    /\ runs = <<>>
    /\ mode = "text"
    /\ env = <<MAX_ROWS_TEXT, MAX_ROWS_VISUAL>>
    /\ raw = <<>>
    /\ sql = <<>>
    /\ calls = <<>>
    /\ executed = <<>>
    /\ status = 0
    /\ detail = <<>>
    /\ cursor = <<>>
    /\ fetched = 0
    /\ rows = <<>>
    /\ arg = <<>>
    /\ lim = 0
    /\ res = <<>>
    /\ res2 = <<>>
    /\ EngineIdle /\ VisualIdle

\* a run that fetches pages_processed pages with games, then an empty page or
\* its last page, puts its data object and, unless daily, the state object
RunCompletes(m, pages_processed) ==
    /\ Len(runs) < MaxRuns
    /\ pages_processed >= 1
    /\ objects' = Append(objects, DataObject(m, pages_processed))
    /\ page_state' = IF is_daily(m) THEN page_state ELSE next_page(m, pages_processed)
    /\ runs' = Append(runs, "written")
    /\ UNCHANGED <<late, ingestRest>>

\* a run whose first page has no games: all_rows is empty, it returns
RunFindsNoData(m, pages_processed) ==
    /\ Len(runs) < MaxRuns
    /\ pages_processed = 0
    /\ runs' = Append(runs, "no data")
    /\ UNCHANGED <<page_state, objects, late, ingestRest>>

\* a run that raises before its data object is put: no API key, a failed
\* read of the state, a failed request for a page or a game, or a failed
\* put of the data object
RunRaisesBeforeWrite(m) ==
    /\ Len(runs) < MaxRuns
    /\ runs' = Append(runs, "raised")
    /\ UNCHANGED <<page_state, objects, late, ingestRest>>

\* a run, not daily, that puts its data object and then fails to put the
\* state object
RunRaisesAfterWrite(m, pages_processed) ==
    /\ Len(runs) < MaxRuns
    /\ ~is_daily(m)
    /\ pages_processed >= 1
    /\ objects' = Append(objects, DataObject(m, pages_processed))
    /\ late' = TRUE
    /\ runs' = Append(runs, "raised late")
    /\ UNCHANGED <<page_state, ingestRest>>

NextIngest ==
    \E m \in Modes : \E pages_processed \in 0..PAGES_PER_RUN :
        \/ RunCompletes(m, pages_processed)
        \/ RunFindsNoData(m, pages_processed)
        \/ RunRaisesBeforeWrite(m)
        \/ RunRaisesAfterWrite(m, pages_processed)

SpecIngest == InitIngest /\ [][NextIngest]_vars

-----------------------------------------------------------------------------
(* Properties.  They read a text as its words: the maximal runs of word    *)
(* characters, compared in upper case.                                     *)

Upper(w) == [k \in 1..Len(w) |-> upper(w[k])]

\* <<first, last>> of every maximal run of word characters of s
WordRuns(s) ==
    {<<i, RunEnd(s, i, WordChars) - 1>> :
        i \in {k \in 1..Len(s) : s[k] \in WordChars /\ ChAt(s, k - 1) \notin WordChars}}

WordAt(s, r) == Upper(SubSeq(s, r[1], r[2]))

WordsOf(s) == {WordAt(s, r) : r \in WordRuns(s)}

UpperWords(ws) == {Upper(w) : w \in ws}

Count(s, c) == Cardinality({i \in 1..Len(s) : s[i] = c})

HasComment(s) ==
    \E i \in 1..(Len(s) - 1) :
        <<s[i], s[i + 1]>> \in {<<"-", "-">>, <<"/", "*">>, <<"*", "/">>}

\* the dotted name that starts at position j
DottedName(s, j) == Upper(SubSeq(s, j, RunEnd(s, j, WordChars \cup {"."}) - 1))

\* the dotted names that follow a word FROM or JOIN and whitespace
TablesNamed(s) ==
    {DottedName(s, RunEnd(s, r[2] + 1, Whitespace)) :
        r \in {q \in WordRuns(s) :
                 /\ WordAt(s, q) \in {kwFROM, kwJOIN}
                 /\ RunEnd(s, q[2] + 1, Whitespace) > q[2] + 1
                 /\ ChAt(s, RunEnd(s, q[2] + 1, Whitespace)) \in WordChars}}

\* the text sanitize_sql examines
Trimmed(t) == rstrip_semicolon(strip(t))

\* the stage (its place in Stages) that raises each message
FailingStage ==
    [m \in {"request error", "No SQL returned", "Multiple statements",
            "Comments not allowed", "Forbidden SQL", "System schemas not allowed",
            "Only SELECT/WITH allowed", "Must query public.rawg_games", "ParseError"}
           \cup {str(e) : e \in RunSqlErrors} \cup {LengthMismatch.detail} |->
        CASE m = "request error" -> 1
          [] m = "No SQL returned" -> 2
          [] m \in {str(e) : e \in RunSqlErrors} \cup {LengthMismatch.detail} -> 5
          [] OTHER -> 3]

\* C1: in every request the stages run in the order generation, extraction,
\* validation, limiting, execution, each at most once; a failure of a stage
\* ends the request with that stage as the last one run; and the only text
\* handed to the database is the one sanitize_sql returned and ensure_limit
\* then bounded with the handler's ceiling.
C1_StagesInOrder ==
    /\ \E k \in 0..Len(Stages) : calls = SubSeq(Stages, 1, k)
    /\ status \in {400, 502} =>
          /\ pc = "done"
          /\ Len(calls) = FailingStage[detail[2]]
    /\ Len(executed) <= 1
    /\ (Len(calls) = Len(Stages) \/ executed # <<>>) =>
          LET c == extract_first_select(raw)
              v == sanitize_sql(c.val, TRUE)
              b == ensure_limit(v.val, MaxRows(mode, env))
          IN  /\ c.err = ""
              /\ v.err = ""
              /\ sql = b
              /\ \A i \in 1..Len(executed) : executed[i] = b

\* a request that ran every stage and was answered
C1_Witness ==
    /\ status = 200
    /\ calls = Stages
    /\ Len(executed) = 1
    /\ executed[1] # raw

\* C2: every string sanitize_sql returns begins with SELECT or WITH, holds no
\* statement terminator, names public.rawg_games after FROM or JOIN, holds no
\* comment token, no forbidden keyword as a word and no system-schema name.
C2_ValidatedSql ==
    (pc = "returned" /\ res.err = "") =>
        LET v == res.val
        IN  /\ \E r \in WordRuns(v) : r[1] = 1 /\ WordAt(v, r) \in {kwSELECT, kwWITH}
            /\ Count(v, ";") = 0
            /\ ~HasComment(v)
            /\ WordsOf(v) \cap ForbiddenWords = {}
            /\ WordsOf(v) \cap UpperWords(CatalogWords) = {}
            /\ Upper(AllowedTable) \in TablesNamed(v)

\* sanitize_sql returned a statement from which it trimmed the terminator
C2_Witness == pc = "returned" /\ res.err = "" /\ res.val # <<>> /\ res.val # arg

\* C3: no statement sanitize_sql accepts names, after FROM or JOIN, a table
\* other than public.rawg_games (a second table joined to the allowed one
\* included).
C3_OnlyAllowedTable ==
    (pc = "returned" /\ res.err = "") => TablesNamed(res.val) \subseteq {Upper(AllowedTable)}

\* the text from the first SELECT or WITH of a completion to its end (the
\* end of the fenced block when there is one), before anything is trimmed
StatementText(txt) ==
    LET t0 == strip(txt)
        t  == IF FenceStarts(t0) # {} THEN FenceInterior(t0) ELSE t0
    IN  IF StatementStarts(t) = {} THEN <<>>
        ELSE SubSeq(t, Min(StatementStarts(t)), Len(t))

\* C4: a candidate with two statement terminators is rejected by extraction
\* followed by validation with "Multiple statements", wherever the two
\* terminators stand.
C4_TwoTerminatorsRejected ==
    (Len(calls) >= 3 /\ Count(StatementText(raw), ";") >= 2) =>
        /\ status = 400
        /\ detail = <<FailedPrefix(mode), "Multiple statements">>

\* the messages of the checks, in the claimed order
CheckOrder ==
    <<"Multiple statements", "Comments not allowed", "Forbidden SQL",
      "System schemas not allowed", "Only SELECT/WITH allowed",
      "Must query public.rawg_games", "ParseError">>

\* the textual checks (1 to 6 of CheckOrder) a text violates
Violated(s) ==
    {k \in 1..6 :
        CASE k = 1 -> Count(s, ";") > 0
          [] k = 2 -> HasComment(s)
          [] k = 3 -> WordsOf(s) \cap ForbiddenWords # {}
          [] k = 4 -> WordsOf(s) \cap UpperWords(CatalogWords) # {}
          [] k = 5 -> ~\E r \in WordRuns(s) : r[1] = 1 /\ WordAt(s, r) \in {kwSELECT, kwWITH}
          [] k = 6 -> Upper(AllowedTable) \notin TablesNamed(s)}

\* C5: the error sanitize_sql raises is the one of the first violated check in
\* the order terminators, comments, keywords, system schemas, read statement,
\* allowed table, parse.
C5_FirstViolatedCheck ==
    pc = "returned" =>
        LET V == Violated(Trimmed(arg))
        IN  IF V = {} THEN res.err \in {"", CheckOrder[7]}
            ELSE res.err = CheckOrder[Min(V)]

\* a candidate that violates the keyword, read-statement and table checks and
\* is refused for the keyword
C5_Witness ==
    /\ pc = "returned"
    /\ {3, 5, 6} \subseteq Violated(Trimmed(arg))
    /\ res.err = "Forbidden SQL"

\* C6: among the candidates that pass the terminator and comment checks,
\* "Forbidden SQL" is raised exactly for those holding one of the ten keywords
\* as a word of its own, in any letter case.
C6_ForbiddenKeywordAsWord ==
    (pc = "returned" /\ res.err \notin {"Multiple statements", "Comments not allowed"}) =>
        (res.err = "Forbidden SQL" <=> WordsOf(Trimmed(arg)) \cap ForbiddenWords # {})

\* a candidate holding a keyword only inside a longer word, and accepted
C6_Witness ==
    /\ pc = "returned"
    /\ res.err = ""
    /\ WordsOf(arg) \cap ForbiddenWords = {}
    /\ \E i \in 1..Len(arg) : \E w \in ForbiddenWords : LitAtI(arg, i, w)

\* <<position, value>> of every LIMIT word followed by whitespace and a word
\* made of digits
LimitClauses(s) ==
    {<<r[1], ParseInt(SubSeq(s, RunEnd(s, r[2] + 1, Whitespace),
                             RunEnd(s, RunEnd(s, r[2] + 1, Whitespace), WordChars) - 1))>> :
        r \in {q \in WordRuns(s) :
                 /\ WordAt(s, q) = kwLIMIT
                 /\ LET j == RunEnd(s, q[2] + 1, Whitespace)
                        e == RunEnd(s, j, WordChars)
                    IN  /\ j > q[2] + 1
                        /\ e > j
                        /\ \A k \in j..(e - 1) : s[k] \in DigitSet}}

\* the value of the first limit clause of s
FirstLimit(s) ==
    LET first == CHOOSE c \in LimitClauses(s) : \A d \in LimitClauses(s) : c[1] <= d[1]
    IN  first[2]

C8_OneClauseChanged ==
    pc \in {"once", "twice"} =>
        \/ res = arg
        \/ res = arg \o <<"\n">> \o LimitClause(lim)
        \/ /\ LimitStarts(arg) # {}
           /\ LET i == Min(LimitStarts(arg))
              IN  res = SubSeq(arg, 1, i - 1) \o LimitClause(lim)
                            \o SubSeq(arg, LimitEnd(arg, i), Len(arg))

\* C9: ensure_limit(ensure_limit(sql, N), N) = ensure_limit(sql, N).
C9_Idempotent == pc = "twice" => res2 = res

\* a second application to a text the first application changed
C9_Witness == pc = "twice" /\ res # arg /\ res2 = res

\* C10: run_sql reads at most max_rows rows from the cursor and returns the
\* first max_rows rows in cursor order.
C10_ReadStopsAtCeiling ==
    pc \in {"respond", "done"} =>
        /\ fetched <= MaxRows(mode, env)
        /\ Len(rows) <= MaxRows(mode, env)
        /\ rows = SubSeq(cursor, 1, Len(rows))
        /\ Len(rows) = Min({Len(cursor), MaxRows(mode, env)})

\* the threads get_engine has returned to
Returned == {t \in DOMAIN thr : thr[t].at = "returned"}

\* C11: under any interleaving of concurrent requests calling get_engine,
\* create_engine is invoked at most once, every caller receives the same
\* engine object, and the global _engine is assigned at most once
C11_EngineCreatedOnce ==
    /\ created <= 1
    /\ assigned <= 1
    /\ \A t \in Returned : \A u \in Returned : thr[t].got = thr[u].got

\* C12: when run_sql fails, the detail of the error ask_text / ask_visual
\* returns never carries the raw text of the driver's exception
C12_DriverTextNotEchoed ==
    (status = 400 /\ calls # <<>> /\ calls[Len(calls)] = "run_sql") =>
        \A e \in RunSqlErrors : e.driver => \A i \in DOMAIN detail : detail[i] # str(e)

\* C13: extract_first_select returns the same candidate for a statement in a
\* fenced block (with or without the annotation sql, with or without a
\* trailing terminator) as for the same statement given unwrapped: the
\* statement itself
C13_FenceTransparent ==
    pc = "fenced" => res2 = res /\ res = Return(sql)

\* a statement in a block annotated sql, with a terminator, has been extracted
C13_Witness ==
    /\ pc = "fenced"
    /\ LitAtI(raw, 4, FenceTag)
    /\ Contains(raw, sql \o <<";">>)
    /\ arg = sql
    /\ res2 = Return(arg)

\* a value that cannot be read as a number
Unparseable(x) == x.k = "null" \/ (x.k = "text" /\ ~IsNumeral(x.v))

\* the value the chart takes from a row: the column value, or else the second
ValueOf(rs, r) ==
    IF Named(rs) THEN Cell(r, "value")
    ELSE IF Len(r) >= 2 THEN r[2][2] ELSE r[1][2]

\* C14: for every non-empty ResultSet in visual mode the chart series has
\* length min(30, number of rows), every label has at most 40 characters, the
\* values are in non-increasing order, and a row whose value cannot be parsed
\* as a number appears with value 0 instead of being dropped
C14_ChartSeries ==
    (pc = "done" /\ mode = "visual" /\ rows # <<>>) =>
        /\ Len(series) = (IF Len(rows) < 30 THEN Len(rows) ELSE 30)
        /\ \A i \in DOMAIN series : Len(series[i].label) <= 40
        /\ \A i \in 1..(Len(series) - 1) : series[i].value >= series[i + 1].value
        /\ Len(rows) <= 30 =>
              Cardinality({i \in DOMAIN series : series[i].value = 0})
                  >= Cardinality({i \in DOMAIN rows : Unparseable(ValueOf(rows, rows[i]))})

\* C15: in visual mode an empty ResultSet makes ask_visual fail with the
\* not-found error 404, which the handler's exception wrapping does not turn
\* into the 400 client error, and no image is rendered or returned
C15_EmptyResultIsNotFound ==
    (pc = "done" /\ mode = "visual" /\ rows = <<>>) =>
        /\ status = 404
        /\ detail = <<"No rows returned">>
        /\ image = "" /\ series = <<>> /\ header = <<>>

\* ask_visual has answered for an empty result
C15_Witness == pc = "done" /\ mode = "visual" /\ rows = <<>> /\ status = 404

\* the characters of a text that are not whitespace
NonSpace(s) == LET Solid(c) == c \notin Whitespace IN SelectSeq(s, Solid)

IsPrefix(p, s) == Len(p) <= Len(s) /\ p = SubSeq(s, 1, Len(p))

\* length of a text on one line: its characters that are not whitespace, and
\* one space between each two neighbouring runs of them
NormalLength(s) ==
    LET starts == {i \in DOMAIN s : s[i] \notin Whitespace
                                    /\ (i = 1 \/ s[i - 1] \in Whitespace)}
    IN  Len(NonSpace(s)) + (IF starts = {} THEN 0 ELSE Cardinality(starts) - 1)

\* C16: for every input string safe_header_value returns a value with no
\* carriage return or newline and no run of two or more whitespace
\* characters; a text that fits after normalisation is returned whole, a
\* longer one is cut to max_len (800) characters followed by the ellipsis
\* marker, so the value is bounded in length
C16_HeaderValueSafe ==
    pc = "returned" =>
        /\ \A i \in DOMAIN res : res[i] \notin {"\r", "\n"}
        /\ \A i \in 1..(Len(res) - 1) :
              ~(res[i] \in Whitespace /\ res[i + 1] \in Whitespace)
        /\ Len(res) <= lim + Len(Ellipsis)
        /\ IF Len(res) <= lim
           THEN NonSpace(res) = NonSpace(arg) /\ Len(res) = NormalLength(arg)
           ELSE /\ SubSeq(res, lim + 1, Len(res)) = Ellipsis
                /\ IsPrefix(NonSpace(SubSeq(res, 1, lim)), NonSpace(arg))
                /\ NormalLength(arg) > lim

\* a text with line breaks, longer than the default max_len, has been cut
C16_Witness ==
    /\ pc = "returned"
    /\ lim = DefaultMaxLen
    /\ \E i \in DOMAIN arg : arg[i] = "\n"
    /\ \E i \in DOMAIN arg : arg[i] = "\r"
    /\ Len(res) = DefaultMaxLen + Len(Ellipsis)

\* the data objects put by runs that were not daily, in order
FullObjects == LET Full(o) == o.mode # "daily" IN SelectSeq(objects, Full)

RECURSIVE PagesIn(_)
PagesIn(os) ==
    IF os = <<>> THEN 0
    ELSE (Head(os).end_page - Head(os).start_page + 1) + PagesIn(Tail(os))

\* the page the state object points at: 1 while there is none
PageCursor == IF page_state = 0 THEN 1 ELSE page_state

\* C17: after any sequence of runs of lambda_handler (full, daily, without
\* data, or raising before the data object is written) the page cursor is 1
\* plus the number of pages written by full-mode runs, and the page ranges of
\* consecutive full-mode runs follow one another with no gap and no overlap,
\* from page 1 up to the cursor
C17_CursorFollowsPages ==
    ~late =>
        /\ PageCursor = 1 + PagesIn(FullObjects)
        /\ \A i \in DOMAIN FullObjects :
              /\ FullObjects[i].start_page <= FullObjects[i].end_page
              /\ FullObjects[i].start_page =
                     (IF i = 1 THEN 1 ELSE FullObjects[i - 1].end_page + 1)
        /\ FullObjects # <<>> => PageCursor = FullObjects[Len(FullObjects)].end_page + 1

\* two full-mode runs have written, the second fewer than ten pages, and
\* another run found no data or raised
C17_Witness ==
    /\ ~late
    /\ Len(FullObjects) = 2
    /\ \E i \in DOMAIN runs : runs[i] \in {"no data", "raised"}
    /\ PageCursor = FullObjects[2].end_page + 1
    /\ FullObjects[2].end_page - FullObjects[2].start_page + 1 < PAGES_PER_RUN

====
